---- MODULE Spec2Model ----
(***************************************************************************)
(* The madokami filename chapter/volume parser (src/rust/en.madokami) as a *)
(* state machine: a filename and a series title are drawn from bounded     *)
(* sets, and one action applies each of the two parse_chapter_info         *)
(* variants of the repository (helper.rs and lib.rs) to them.              *)
(*                                                                         *)
(* A Rust String is a sequence of Unicode code points (naturals); byte     *)
(* offsets are offsets into its UTF-8 encoding, as in the source.  An f32  *)
(* parsed from a digit run is the exact decimal [m, e] = m / 10^e (digit   *)
(* runs in the model stay far below the 2^24 limit of exact f32 integers). *)
(***************************************************************************)
EXTENDS Integers, Sequences, FiniteSets, TLC

VARIABLES filename, manga_title, tpl, pc, info, text, chapters,
          CACHED_SLUG, CACHED_JSON, history_series, history, saveSeries, ret

\* the statics and the defaults store of the cubari source
cubari_vars == <<CACHED_SLUG, CACHED_JSON, history_series, history, saveSeries, ret>>

\* the input and the results of the madokami functions
parser_vars == <<filename, manga_title, tpl, pc, info, text, chapters>>

vars == <<filename, manga_title, tpl, pc, info, text, chapters,
          CACHED_SLUG, CACHED_JSON, history_series, history, saveSeries, ret>>

(***************************************************************************)
(* Bounds of the model.                                                    *)
(***************************************************************************)
\* chapter and volume numbers of the filename templates range over 1..MaxNum
MaxNum == 3
\* free-form filenames have at most MaxLen characters
MaxLen == 3
\* an index page has at most MaxRows rows
MaxRows == 2

(***************************************************************************)
(* Strings.                                                                *)
(***************************************************************************)
None == 0 - 1

\* a panicking slice / index yields this poison string (no code point is negative)
PANIC == <<None>>

\* the ASCII characters the model writes literals with, by first code point
Segments ==
    << <<32, " !">>, <<37, "%">>, <<40, "()">>, <<45, "-./">>,
       <<48, "0123456789:">>, <<65, "ABCDEFGHIJKLMNOPQRSTUVWXYZ">>, <<95, "_">>,
       <<97, "abcdefghijklmnopqrstuvwxyz">> >>

\* code point of a one-character ASCII string
Ord(c) ==
    LET k == CHOOSE k \in 1..Len(Segments) :
                 \E i \in 1..Len(Segments[k][2]) : SubSeq(Segments[k][2], i, i) = c
        i == CHOOSE i \in 1..Len(Segments[k][2]) : SubSeq(Segments[k][2], i, i) = c
    IN  Segments[k][1] + i - 1

\* the Rust string literal s as a sequence of code points
U(s) == [i \in 1..Len(s) |-> Ord(SubSeq(s, i, i))]

Min(S) == CHOOSE x \in S : \A y \in S : x <= y
Max(S) == CHOOSE x \in S : \A y \in S : x >= y

\* UTF-8 encoding of one code point (code points below 0x800 only)
Utf8(c) == IF c < 128 THEN <<c>> ELSE <<192 + (c \div 64), 128 + (c % 64)>>

RECURSIVE as_bytes(_)
as_bytes(s) == IF s = <<>> THEN <<>> ELSE Utf8(Head(s)) \o as_bytes(Tail(s))

\* the characters of s that take two bytes
Wide(s) == {i \in 1..Len(s) : s[i] >= 128}

\* str::len(): the length in bytes
len(s) == Len(s) + Cardinality(Wide(s))

\* byte offset of the k-th character boundary (k characters precede it)
ByteOff(s, k) == k + Cardinality({i \in Wide(s) : i <= k})

\* the character index of byte offset b, None when b is no character boundary
CharIdx(s, b) ==
    IF Wide(s) = {} THEN (IF b >= 0 /\ b <= Len(s) THEN b ELSE None)
    ELSE IF \E k \in 0..Len(s) : ByteOff(s, k) = b
    THEN CHOOSE k \in 0..Len(s) : ByteOff(s, k) = b
    ELSE None

\* &s[a..]: panics when a is out of range or no character boundary
slice_from(s, a) ==
    IF CharIdx(s, a) = None THEN PANIC ELSE SubSeq(s, CharIdx(s, a) + 1, Len(s))

\* &s[..b]
slice_to(s, b) ==
    IF CharIdx(s, b) = None THEN PANIC ELSE SubSeq(s, 1, CharIdx(s, b))

\* String::truncate(new_len): no effect beyond the end, panics off a boundary
truncate(s, new_len) ==
    IF new_len > len(s) THEN s
    ELSE IF new_len < 0 \/ CharIdx(s, new_len) = None THEN PANIC
    ELSE SubSeq(s, 1, CharIdx(s, new_len))

starts_with(s, p) == Len(p) <= Len(s) /\ SubSeq(s, 1, Len(p)) = p

ends_with(s, p) == Len(p) <= Len(s) /\ SubSeq(s, Len(s) - Len(p) + 1, Len(s)) = p

\* character indices (0-based) at which pat occurs in s
Occurrences(s, pat) ==
    {k \in 0..(Len(s) - Len(pat)) : SubSeq(s, k + 1, k + Len(pat)) = pat}

\* str::find: byte offset of the first occurrence, or None
find(s, pat) ==
    IF Occurrences(s, pat) = {} THEN None ELSE ByteOff(s, Min(Occurrences(s, pat)))

\* str::rfind: byte offset of the last occurrence, or None
rfind(s, pat) ==
    IF Occurrences(s, pat) = {} THEN None ELSE ByteOff(s, Max(Occurrences(s, pat)))

contains(s, pat) == Occurrences(s, pat) # {}

\* char::is_whitespace, on the code points below 0x800
is_whitespace(c) == c \in {9, 10, 11, 12, 13, 32, 133, 160}

RECURSIVE trim_start(_)
trim_start(s) ==
    IF s # <<>> /\ is_whitespace(Head(s)) THEN trim_start(Tail(s)) ELSE s

RECURSIVE trim_end(_)
trim_end(s) ==
    IF s # <<>> /\ is_whitespace(s[Len(s)])
    THEN trim_end(SubSeq(s, 1, Len(s) - 1))
    ELSE s

trim(s) == trim_end(trim_start(s))

is_ascii_digit(c) == c \in 48..57

is_ascii_alphabetic(c) == c \in 65..90 \/ c \in 97..122

\* char::is_alphanumeric, on the code points below 0x100
is_alphanumeric(c) ==
    \/ is_ascii_digit(c)
    \/ is_ascii_alphabetic(c)
    \/ c \in {170, 178, 179, 181, 185, 186, 188, 189, 190}
    \/ (c \in 192..255 /\ c \notin {215, 247})

\* char::to_lowercase, on the code points below 0x100
char_to_lowercase(c) ==
    IF c \in 65..90 \/ (c \in 192..222 /\ c # 215) THEN c + 32 ELSE c

to_lowercase(s) == [i \in 1..Len(s) |-> char_to_lowercase(s[i])]

to_ascii_lowercase(c) == IF c \in 65..90 THEN c + 32 ELSE c

eq_ignore_ascii_case(a, b) ==
    /\ Len(as_bytes(a)) = Len(as_bytes(b))
    /\ \A i \in 1..Len(as_bytes(a)) :
          to_ascii_lowercase(as_bytes(a)[i]) = to_ascii_lowercase(as_bytes(b)[i])

\* .chars().take_while(|c| c.is_ascii_digit()).collect()
RECURSIVE take_while_digit(_)
take_while_digit(s) ==
    IF s # <<>> /\ is_ascii_digit(Head(s))
    THEN <<Head(s)>> \o take_while_digit(Tail(s))
    ELSE <<>>

\* .chars().take_while(|c| c.is_ascii_digit() || *c == '.').collect()
RECURSIVE take_while_digit_or_dot(_)
take_while_digit_or_dot(s) ==
    IF s # <<>> /\ (is_ascii_digit(Head(s)) \/ Head(s) = 46)
    THEN <<Head(s)>> \o take_while_digit_or_dot(Tail(s))
    ELSE <<>>

Reverse(s) == [i \in 1..Len(s) |-> s[Len(s) + 1 - i]]

\* .chars().nth(k)
nth(s, k) == IF k >= 0 /\ k < Len(s) THEN s[k + 1] ELSE None

(***************************************************************************)
(* f32 values: the decimal m / 10^e, kept normalised (no trailing zero in  *)
(* the fraction), so that equal numbers are equal records.                 *)
(***************************************************************************)
RECURSIVE Pow10(_)
Pow10(k) == IF k = 0 THEN 1 ELSE 10 * Pow10(k - 1)

RECURSIVE Normalise(_)
Normalise(x) ==
    IF x.e > 0 /\ x.m % 10 = 0 THEN Normalise([m |-> x.m \div 10, e |-> x.e - 1]) ELSE x

\* the f32 of the integer n
F(n) == [m |-> n, e |-> 0]

\* f32::default(), also the "unset" value of a ChapterInfo field
Zero == F(0)

\* (a - b).abs() < 0.001
Near(a, b) ==
    LET x == a.m * Pow10(b.e)
        y == b.m * Pow10(a.e)
        d == IF x >= y THEN x - y ELSE y - x
    IN  d * 1000 < Pow10(a.e + b.e)

\* a < b
Less(a, b) == a.m * Pow10(b.e) < b.m * Pow10(a.e)

\* x as i32 (truncation toward zero)
as_i32(x) == x.m \div Pow10(x.e)

RECURSIVE DigitsValue(_)
DigitsValue(s) ==
    IF s = <<>> THEN 0 ELSE 10 * DigitsValue(SubSeq(s, 1, Len(s) - 1)) + (s[Len(s)] - 48)

\* str::parse::<f32>() of a string of digits and dots: Err unless it holds
\* at least one digit and at most one dot ("7." and ".5" are accepted)
parse_f32(s) ==
    LET dots   == {i \in 1..Len(s) : s[i] = 46}
        digits == SelectSeq(s, is_ascii_digit)
    IN  IF digits = <<>> \/ Cardinality(dots) > 1 THEN [ok |-> FALSE, val |-> Zero]
        ELSE IF dots = {} THEN [ok |-> TRUE, val |-> F(DigitsValue(digits))]
        ELSE [ok |-> TRUE,
              val |-> Normalise([m |-> DigitsValue(digits),
                                 e |-> Len(s) - (CHOOSE i \in dots : TRUE)])]

\* the string literals of the two parsers
LIT_SP_PAREN == U(" (")
LIT_PAREN_V == U("(v")
LIT_SP_V == U(" v")
LIT_DASH == U(" - ")
LIT_C == U("c")
LIT_DASH_C == U(" - c")
LIT_HYPHEN == U("-")

(***************************************************************************)
(* helper.rs: the string helpers of the parser.                            *)
(***************************************************************************)
hex_val(b) ==
    IF b \in 48..57 THEN b - 48
    ELSE IF b \in 97..102 THEN b - 97 + 10
    ELSE IF b \in 65..70 THEN b - 65 + 10
    ELSE None

\* a bounds check that is off by one: it lets i + 2 = n through
url_decode_unguarded(i, n) == i + 2 <= n

\* the bounds check that guards bytes[i + 1] and bytes[i + 2]
url_decode_in_bounds(i, n) == i + 2 < n

\* bytes[k]; an index past the end panics
byte_at(bytes, k) == IF k < Len(bytes) THEN bytes[k + 1] ELSE None

\* the loop of url_decode at byte i with the result so far; every byte is
\* pushed as the char of that code point
RECURSIVE url_decode_loop(_, _, _)
url_decode_loop(bytes, i, result) ==
    IF ~(i < Len(bytes)) THEN result
    ELSE IF bytes[i + 1] = 37 /\ url_decode_in_bounds(i, Len(bytes))
    THEN IF byte_at(bytes, i + 1) = None \/ byte_at(bytes, i + 2) = None
         THEN PANIC
         ELSE IF hex_val(byte_at(bytes, i + 1)) # None /\ hex_val(byte_at(bytes, i + 2)) # None
         THEN url_decode_loop(bytes, i + 3,
                  Append(result, hex_val(byte_at(bytes, i + 1)) * 16
                                   + hex_val(byte_at(bytes, i + 2))))
         ELSE url_decode_loop(bytes, i + 1, Append(result, bytes[i + 1]))
    ELSE url_decode_loop(bytes, i + 1, Append(result, bytes[i + 1]))

url_decode(input) == url_decode_loop(as_bytes(input), 0, <<>>)

\* the upper-case hexadecimal digit of v ("{:02X}")
hex_digit(v) == IF v < 10 THEN 48 + v ELSE 55 + v

\* the bytes url_encode copies: letters, digits and - _ . ! ~ * '
is_unreserved(byte) ==
    \/ byte \in 97..122 \/ byte \in 65..90 \/ byte \in 48..57
    \/ byte \in {45, 95, 46, 33, 126, 42, 39}

RECURSIVE url_encode_bytes(_)
url_encode_bytes(bytes) ==
    IF bytes = <<>> THEN <<>>
    ELSE (IF is_unreserved(Head(bytes)) THEN <<Head(bytes)>>
          ELSE <<37, hex_digit(Head(bytes) \div 16), hex_digit(Head(bytes) % 16)>>)
         \o url_encode_bytes(Tail(bytes))

url_encode(input) == url_encode_bytes(as_bytes(input))

EXTENSIONS ==
    << U(".cbz"), U(".zip"), U(".cbr"), U(".rar"), U(".7z"), U(".pdf"), U(".epub"),
       U(".png"), U(".jpg"), U(".jpeg"), U(".gif"), U(".xml"), U(".txt") >>

RECURSIVE clean_filename_loop(_, _, _)
clean_filename_loop(cleaned, cleaned_lower, k) ==
    IF k > Len(EXTENSIONS) THEN cleaned
    ELSE IF ends_with(cleaned_lower, EXTENSIONS[k])
    THEN truncate(cleaned, len(cleaned) - len(EXTENSIONS[k]))
    ELSE clean_filename_loop(cleaned, cleaned_lower, k + 1)

\* the extension cut from the lower-cased name
clean_filename_lowered(name) == clean_filename_loop(to_lowercase(name), to_lowercase(name), 1)

clean_filename(name) == clean_filename_loop(name, to_lowercase(name), 1)

\* the lines of exclusions.txt (include_str!): series titles whose names
\* hold digits, with a blank line and a padded line
exclusions_txt ==
    << U("Area 88"), <<>>, U("Mob Psycho 100"), U("  20th Century Boys "), U("   ") >>

\* .lines().map(|line| line.trim()).filter(|line| !line.is_empty())
get_exclusions ==
    SelectSeq([k \in 1..Len(exclusions_txt) |-> trim(exclusions_txt[k])],
              LAMBDA line : line # <<>>)

\* membership by substring, in either direction
is_excluded_substring(title) ==
    \E k \in 1..Len(get_exclusions) :
        \/ contains(to_lowercase(get_exclusions[k]), to_lowercase(trim(title)))
        \/ contains(to_lowercase(trim(title)), to_lowercase(get_exclusions[k]))

\* exclusions.iter().any(|&ex| ex.eq_ignore_ascii_case(&lower_title))
is_excluded(title) ==
    \E k \in 1..Len(get_exclusions) :
        eq_ignore_ascii_case(get_exclusions[k], to_lowercase(trim(title)))

\* str::replace(from, to): every non-overlapping occurrence, left to right
RECURSIVE replace(_, _, _)
replace(s, from, to) ==
    IF from = <<>> \/ ~contains(s, from) THEN s
    ELSE LET k == Min(Occurrences(s, from))
         IN  SubSeq(s, 1, k) \o to \o replace(SubSeq(s, k + Len(from) + 1, Len(s)), from, to)

\* str::replacen(from, to, 1): the first occurrence only
replacen1(s, from, to) ==
    IF ~contains(s, from) THEN s
    ELSE LET k == Min(Occurrences(s, from))
         IN  SubSeq(s, 1, k) \o to \o SubSeq(s, k + Len(from) + 1, Len(s))

\* a looser test: the title's number is kept after any ASCII letter
keeps_number_after_letter(cleaned, pattern) ==
    LET pos         == find(cleaned, pattern)
        before_char == IF pos > 0 THEN nth(cleaned, pos - 1) ELSE None
    IN  before_char # None /\ is_ascii_alphabetic(before_char)

\* the character before the first occurrence of pattern decides whether the
\* title's number is removed: not after 'v' or 'c'.  pos is a byte offset,
\* chars().nth() counts characters.
keeps_number(cleaned, pattern) ==
    LET pos         == find(cleaned, pattern)
        before_char == IF pos > 0 THEN nth(cleaned, pos - 1) ELSE None
    IN  before_char = 118 \/ before_char = 99

\* the while loop of clean_excluded_numbers at title character i
RECURSIVE clean_excluded_loop(_, _, _)
clean_excluded_loop(title_chars, i, cleaned) ==
    IF ~(i < Len(title_chars)) THEN cleaned
    ELSE IF is_ascii_digit(title_chars[i + 1])
    THEN LET start_idx     == i
             number        == take_while_digit(SubSeq(title_chars, i + 1, Len(title_chars)))
             j             == i + Len(number)
             context_start == IF start_idx >= 3 THEN start_idx - 3 ELSE 0
             context_end   == Min({j + 3, Len(title_chars)})
             pattern       == SubSeq(title_chars, context_start + 1, context_end)
             next          == IF find(cleaned, pattern) # None /\ ~keeps_number(cleaned, pattern)
                              THEN replacen1(cleaned, pattern, replace(pattern, number, <<>>))
                              ELSE cleaned
         IN  clean_excluded_loop(title_chars, j + 1, next)
    ELSE clean_excluded_loop(title_chars, i + 1, cleaned)

clean_excluded_numbers(name, title) ==
    IF ~is_excluded(title) THEN name
    ELSE clean_excluded_loop(to_lowercase(trim(title)), 0, to_lowercase(name))

(***************************************************************************)
(* helper.rs: parse_chapter_info.                                          *)
(***************************************************************************)
\* ChapterInfo::default()
ChapterInfo_default == [chapter |-> Zero, volume |-> Zero]

\* the name with its metadata left in place
truncated_of_keeps_metadata(cleaned_for_parsing) == trim(cleaned_for_parsing)

\* "Remove metadata by truncating at " (" if it exists"
truncated_of(cleaned_for_parsing) ==
    LET pos == find(cleaned_for_parsing, LIT_SP_PAREN)
    IN  IF pos # None THEN trim(slice_to(cleaned_for_parsing, pos))
        ELSE trim(cleaned_for_parsing)

\* the digit run after a marker found at byte offset pos, as a volume
volume_after(truncated, pos) ==
    LET vol_str == take_while_digit(slice_from(truncated, pos + 2))
    IN  IF vol_str # <<>> /\ parse_f32(vol_str).ok THEN parse_f32(vol_str).val ELSE Zero

\* volume extraction that knows the parenthesised marker only
volume_of_paren_only(truncated) ==
    IF find(truncated, LIT_PAREN_V) # None
    THEN volume_after(truncated, find(truncated, LIT_PAREN_V))
    ELSE Zero

\* "--- Volume Extraction ---": "(v" first, otherwise " v"
volume_of(truncated) ==
    IF find(truncated, LIT_PAREN_V) # None
    THEN volume_after(truncated, find(truncated, LIT_PAREN_V))
    ELSE IF find(truncated, LIT_SP_V) # None
    THEN volume_after(truncated, find(truncated, LIT_SP_V))
    ELSE Zero

\* the chapter section cut at the first " - "
chapter_section_of_first(truncated) ==
    LET pos == find(truncated, LIT_DASH)
    IN  IF pos # None THEN trim(slice_from(truncated, pos + 3)) ELSE truncated

\* "--- Determine the Chapter Section ---"
chapter_section_of(truncated) ==
    LET pos == rfind(truncated, LIT_DASH)
    IN  IF pos # None THEN trim(slice_from(truncated, pos + 3)) ELSE truncated

\* "--- Remove any Volume Marker from the Chapter Section if Present ---"
chapter_section_clean_of(chapter_section, volume) ==
    LET v_pos     == rfind(chapter_section, LIT_SP_V)
        candidate == take_while_digit(slice_from(chapter_section, v_pos + 2))
    IN  IF volume # Zero /\ v_pos # None /\ candidate # <<>>
           /\ parse_f32(candidate).ok /\ Near(parse_f32(candidate).val, volume)
        THEN trim(slice_to(chapter_section, v_pos))
        ELSE chapter_section

\* (A) the section starts with 'c': the digits that follow, if any
explicit_c_digits(chapter_section_clean) ==
    IF starts_with(chapter_section_clean, LIT_C)
    THEN take_while_digit(trim_start(slice_from(chapter_section_clean, 1)))
    ELSE <<>>

\* (B) the trailing group of digits
trailing_digits(chapter_section_clean) ==
    Reverse(take_while_digit(Reverse(chapter_section_clean)))

\* (C) the digits that follow the title prefix
title_prefix_digits(truncated, clean_manga) ==
    IF ~contains(truncated, LIT_DASH) /\ starts_with(truncated, clean_manga)
    THEN take_while_digit(trim(slice_from(truncated, len(clean_manga))))
    ELSE <<>>

\* chapter extraction whose volume comparison ignores the " - " delimiter
chapter_of_no_dash_guard(truncated, clean_manga, volume) ==
    LET section  == chapter_section_clean_of(chapter_section_of(truncated), volume)
        digits   == explicit_c_digits(section)
        trailing == trailing_digits(section)
        prefix   == title_prefix_digits(truncated, clean_manga)
    IN  IF digits # <<>> /\ parse_f32(digits).ok THEN parse_f32(digits).val
        ELSE IF trailing # <<>> /\ parse_f32(trailing).ok
        THEN IF volume # Zero /\ Near(parse_f32(trailing).val, volume)
             THEN Zero
             ELSE parse_f32(trailing).val
        ELSE IF prefix # <<>> /\ parse_f32(prefix).ok THEN parse_f32(prefix).val
        ELSE Zero

\* chapter extraction that tries the trailing digits before the 'c' marker
chapter_of_trailing_first(truncated, clean_manga, volume) ==
    LET section  == chapter_section_clean_of(chapter_section_of(truncated), volume)
        digits   == explicit_c_digits(section)
        trailing == trailing_digits(section)
        prefix   == title_prefix_digits(truncated, clean_manga)
    IN  IF trailing # <<>> /\ parse_f32(trailing).ok
        THEN IF ~contains(truncated, LIT_DASH) /\ volume # Zero
                /\ Near(parse_f32(trailing).val, volume)
             THEN Zero
             ELSE parse_f32(trailing).val
        ELSE IF digits # <<>> /\ parse_f32(digits).ok THEN parse_f32(digits).val
        ELSE IF prefix # <<>> /\ parse_f32(prefix).ok THEN parse_f32(prefix).val
        ELSE Zero

\* "--- Chapter Extraction ---" on the truncated name with the volume found
chapter_of(truncated, clean_manga, volume) ==
    LET section  == chapter_section_clean_of(chapter_section_of(truncated), volume)
        digits   == explicit_c_digits(section)
        trailing == trailing_digits(section)
        prefix   == title_prefix_digits(truncated, clean_manga)
    IN  IF digits # <<>> /\ parse_f32(digits).ok THEN parse_f32(digits).val
        ELSE IF trailing # <<>> /\ parse_f32(trailing).ok
        THEN IF ~contains(truncated, LIT_DASH) /\ volume # Zero
                /\ Near(parse_f32(trailing).val, volume)
             THEN Zero
             ELSE parse_f32(trailing).val
        ELSE IF prefix # <<>> /\ parse_f32(prefix).ok THEN parse_f32(prefix).val
        ELSE Zero

\* the filename normalisation parse_chapter_info starts with: percent-decode,
\* lowercase, strip one known extension, trim
normalize(name) == trim(clean_filename(to_lowercase(url_decode(name))))

\* the name the phases work on: decoded, lowercased, extension and title
\* numbers removed, metadata cut
truncated_name(name, title) ==
    truncated_of(clean_excluded_numbers(clean_filename(to_lowercase(url_decode(name))), title))

\* the result, and whether the call panicked instead of returning
parse_chapter_info(name, title) ==
    LET decoded     == url_decode(name)
        full        == clean_filename(to_lowercase(decoded))
        clean_manga == to_lowercase(title)
        cleaned_for_parsing == clean_excluded_numbers(full, title)
        truncated   == truncated_of(cleaned_for_parsing)
        volume      == volume_of(truncated)
    IN  IF PANIC \in {decoded, full, cleaned_for_parsing, truncated}
        THEN [panicked |-> TRUE, info |-> ChapterInfo_default]
        ELSE IF truncated = trim(clean_manga)
        THEN [panicked |-> FALSE, info |-> ChapterInfo_default]
        ELSE [panicked |-> FALSE,
              info |-> [chapter |-> chapter_of(truncated, clean_manga, volume),
                        volume  |-> volume]]

(***************************************************************************)
(* lib.rs: the parse_chapter_info the chapter list calls, with the chapter *)
(* range.  chapter_range is <<>> (None) or <<start, end>> (Some).          *)
(***************************************************************************)
LibChapterInfo_default == [chapter |-> Zero, volume |-> Zero, chapter_range |-> <<>>]

\* (B) the digits (and dots) that follow the title prefix
lib_prefix_digits(clean_name, clean_manga) ==
    IF starts_with(clean_name, clean_manga)
    THEN take_while_digit_or_dot(trim(slice_from(clean_name, len(clean_manga))))
    ELSE <<>>

\* (1) the digits after the first " v"
lib_vol_str(clean_name) ==
    LET pos == find(clean_name, LIT_SP_V)
    IN  IF pos # None THEN take_while_digit_or_dot(slice_from(clean_name, pos + 2)) ELSE <<>>

\* an explicit " - c" marker that reads the first number only
lib_explicit_marker_single(clean_name) ==
    LET pos          == find(clean_name, LIT_DASH_C)
        chapter_part == slice_from(clean_name, pos + 4)
        start_str    == take_while_digit_or_dot(chapter_part)
    IN  IF pos = None THEN [hit |-> FALSE]
        ELSE IF start_str # <<>> /\ parse_f32(start_str).ok
        THEN [hit |-> TRUE, chapter |-> parse_f32(start_str).val, chapter_range |-> <<>>]
        ELSE [hit |-> FALSE]

\* (2) the explicit " - c" marker: a range, a single chapter, or nothing
lib_explicit_marker(clean_name) ==
    LET pos          == find(clean_name, LIT_DASH_C)
        chapter_part == slice_from(clean_name, pos + 4)
        dash_pos     == find(chapter_part, LIT_HYPHEN)
        start_str    == take_while_digit_or_dot(chapter_part)
        end_str      == take_while_digit_or_dot(slice_from(chapter_part, dash_pos + 1))
    IN  IF pos = None THEN [hit |-> FALSE]
        ELSE IF dash_pos # None
        THEN IF start_str # <<>> /\ end_str # <<>>
                /\ parse_f32(start_str).ok /\ parse_f32(end_str).ok
             THEN [hit |-> TRUE, chapter |-> parse_f32(start_str).val,
                   chapter_range |-> <<parse_f32(start_str).val, parse_f32(end_str).val>>]
             ELSE [hit |-> FALSE]
        ELSE IF start_str # <<>> /\ parse_f32(start_str).ok
        THEN [hit |-> TRUE, chapter |-> parse_f32(start_str).val, chapter_range |-> <<>>]
        ELSE [hit |-> FALSE]

\* (3) the first 'c' that is not part of a word
lib_c_marker_str(clean_name) ==
    LET pos == find(clean_name, LIT_C)
    IN  IF pos # None /\ (pos = 0 \/ ~is_ascii_alphabetic(as_bytes(clean_name)[pos]))
        THEN take_while_digit_or_dot(slice_from(clean_name, pos + 1))
        ELSE <<>>

\* (4) the scan for a digit group after a non-alphanumeric character, from
\* character i on: the first group that parses below 1000
RECURSIVE lib_scan(_, _)
lib_scan(chars, i) ==
    IF ~(i < Len(chars)) THEN [hit |-> FALSE]
    ELSE LET number_str == take_while_digit_or_dot(SubSeq(chars, i + 1, Len(chars)))
         IN  IF is_ascii_digit(chars[i + 1]) /\ (i = 0 \/ ~is_alphanumeric(chars[i]))
                /\ parse_f32(number_str).ok /\ Less(parse_f32(number_str).val, F(1000))
             THEN [hit |-> TRUE, chapter |-> parse_f32(number_str).val]
             ELSE lib_scan(chars, i + 1)

\* (5) the trailing digits and dots
lib_trailing(clean_name) ==
    Reverse(take_while_digit_or_dot(Reverse(clean_name)))

lib_parse_chapter_info(name, title) ==
    LET decoded     == url_decode(name)
        clean_name  == to_lowercase(decoded)
        clean_manga == to_lowercase(title)
        digits      == lib_prefix_digits(clean_name, clean_manga)
        vol_str     == lib_vol_str(clean_name)
        marker      == lib_explicit_marker(clean_name)
        c_str       == lib_c_marker_str(clean_name)
        scan        == lib_scan(clean_name, 0)
        trailing    == lib_trailing(clean_name)
        chapter(x)  == [LibChapterInfo_default EXCEPT !.chapter = x]
    IN  IF decoded = PANIC
        THEN [panicked |-> TRUE, info |-> LibChapterInfo_default]
        ELSE [panicked |-> FALSE, info |->
              IF trim(clean_name) = trim(clean_manga) THEN LibChapterInfo_default
              ELSE IF digits # <<>> /\ parse_f32(digits).ok THEN chapter(parse_f32(digits).val)
              ELSE IF vol_str # <<>> /\ parse_f32(vol_str).ok
              THEN [LibChapterInfo_default EXCEPT !.volume = parse_f32(vol_str).val]
              ELSE IF marker.hit
              THEN [chapter |-> marker.chapter, volume |-> Zero,
                    chapter_range |-> marker.chapter_range]
              ELSE IF c_str # <<>> /\ parse_f32(c_str).ok THEN chapter(parse_f32(c_str).val)
              ELSE IF scan.hit THEN chapter(scan.chapter)
              ELSE IF trailing # <<>> /\ parse_f32(trailing).ok
              THEN chapter(parse_f32(trailing).val)
              ELSE LibChapterInfo_default]

(***************************************************************************)
(* lib.rs: get_chapter_list.  The rows of the page's index table are the   *)
(* input: the link text of the first cell and the href of the read link.   *)
(***************************************************************************)
LIT_SLASH == U("/")
LIT_BANG == U("!")
LIT_VIZBIG == U("VIZBIG")
LIT_READER == U("/reader")
LIT_CHAPTER == U("Chapter ")

\* the decimal digits of a natural number (format!("{}", n))
RECURSIVE Dec(_)
Dec(n) == IF n < 10 THEN <<48 + n>> ELSE Dec(n \div 10) \o <<48 + (n % 10)>>

\* str::split(sep): the parts between the occurrences of sep, in order
RECURSIVE split(_, _)
split(s, sep) ==
    IF ~contains(s, sep) THEN <<s>>
    ELSE LET k == Min(Occurrences(s, sep))
         IN  <<SubSeq(s, 1, k)>> \o split(SubSeq(s, k + Len(sep) + 1, Len(s)), sep)

\* str::trim_matches('/')
RECURSIVE trim_slashes(_)
trim_slashes(s) ==
    IF s # <<>> /\ Head(s) = 47 THEN trim_slashes(Tail(s))
    ELSE IF s # <<>> /\ s[Len(s)] = 47 THEN trim_slashes(SubSeq(s, 1, Len(s) - 1))
    ELSE s

\* the last path segment, decoded, that neither starts with '!' nor holds
\* "VIZBIG"; parts is searched from its end
RECURSIVE extract_from_parts(_)
extract_from_parts(parts) ==
    IF parts = <<>> THEN <<>>
    ELSE LET part    == parts[Len(parts)]
             decoded == url_decode(part)
         IN  IF part # <<>> /\ ~starts_with(decoded, LIT_BANG) /\ ~contains(decoded, LIT_VIZBIG)
             THEN decoded
             ELSE extract_from_parts(SubSeq(parts, 1, Len(parts) - 1))

extract_manga_title(path) == extract_from_parts(split(trim_slashes(path), LIT_SLASH))

\* "/reader" and what follows the last "/reader" of the href
reader_url(base_url) ==
    LET parts == split(base_url, LIT_READER)
    IN  LIT_READER \o parts[Len(parts)]

\* the sentinel mapping of the emitted fields
or_unknown(x) == IF Less(Zero, x) THEN x ELSE F(None)

\* the entries of a file with a chapter range: one for each i32 of
\* (start as i32)..=(end as i32)
range_entries(url, range_info) ==
    LET first == as_i32(range_info.chapter_range[1])
        last  == as_i32(range_info.chapter_range[2])
    IN  [k \in 1..(IF last >= first THEN last - first + 1 ELSE 0) |->
            [id      |-> url,
             title   |-> LIT_CHAPTER \o Dec(first + k - 1),
             chapter |-> F(first + k - 1),
             volume  |-> or_unknown(range_info.volume)]]

\* the entry of a file without a chapter range
single_entry(url, title, single_info) ==
    [id      |-> url,
     title   |-> url_decode(title),
     chapter |-> or_unknown(single_info.chapter),
     volume  |-> or_unknown(single_info.volume)]

\* the entries one row adds: none for a directory or a '!' entry
row_entries(row, title_of_manga) ==
    LET url      == reader_url(row.base_url)
        row_info == lib_parse_chapter_info(row.title, title_of_manga).info
    IN  IF ends_with(row.title, LIT_SLASH) \/ starts_with(row.title, LIT_BANG) THEN <<>>
        ELSE IF row_info.chapter_range # <<>> THEN range_entries(url, row_info)
        ELSE <<single_entry(url, row.title, row_info)>>

\* the for loop over the rows from row i on
RECURSIVE rows_entries(_, _, _)
rows_entries(rows, i, title_of_manga) ==
    IF i > Len(rows) THEN <<>>
    ELSE row_entries(rows[i], title_of_manga) \o rows_entries(rows, i + 1, title_of_manga)

\* the chapter list of the page: the rows' entries, reversed
get_chapter_list(id, rows) == Reverse(rows_entries(rows, 1, extract_manga_title(id)))

(***************************************************************************)
(* multi.cubari cubari_url_parser: url_to_slug.                            *)
(***************************************************************************)
\* the base64 URL-safe alphabet: the character of a 6-bit value
base64_char(v) ==
    IF v < 26 THEN 65 + v
    ELSE IF v < 52 THEN 97 + (v - 26)
    ELSE IF v < 62 THEN 48 + (v - 52)
    ELSE IF v = 62 THEN 45
    ELSE 95

\* base64::encode_config_slice(.., URL_SAFE_NO_PAD, ..) on a byte sequence
RECURSIVE base64_bytes(_)
base64_bytes(b) ==
    IF b = <<>> THEN <<>>
    ELSE IF Len(b) = 1
    THEN <<base64_char(b[1] \div 4), base64_char((b[1] % 4) * 16)>>
    ELSE IF Len(b) = 2
    THEN <<base64_char(b[1] \div 4), base64_char((b[1] % 4) * 16 + b[2] \div 16),
           base64_char((b[2] % 16) * 4)>>
    ELSE <<base64_char(b[1] \div 4), base64_char((b[1] % 4) * 16 + b[2] \div 16),
           base64_char((b[2] % 16) * 4 + b[3] \div 64), base64_char(b[3] % 64)>>
         \o base64_bytes(SubSeq(b, 4, Len(b)))

base64_encode(str) == base64_bytes(as_bytes(str))

\* str::trim_start_matches(pat): every repetition of pat at the start
RECURSIVE trim_start_matches(_, _)
trim_start_matches(s, pat) ==
    IF pat # <<>> /\ starts_with(s, pat)
    THEN trim_start_matches(SubSeq(s, Len(pat) + 1, Len(s)), pat)
    ELSE s

\* str::trim_end_matches(pat)
RECURSIVE trim_end_matches(_, _)
trim_end_matches(s, pat) ==
    IF pat # <<>> /\ ends_with(s, pat)
    THEN trim_end_matches(SubSeq(s, 1, Len(s) - Len(pat)), pat)
    ELSE s

\* url.matches('/').count()
slash_count_of(url) == Cardinality({i \in 1..Len(url) : url[i] = 47})

\* the url with its scheme cut, a trailing '/' kept
query_of_keeps_slash(url) ==
    trim_start_matches(trim_start_matches(trim_start_matches(url, U("http")), U("s")), U("://"))

\* the url without "http", 's', "://" at its start and '/' at its end
query_of(url) ==
    trim_end_matches(
        trim_start_matches(trim_start_matches(trim_start_matches(url, U("http")), U("s")),
                           U("://")),
        LIT_SLASH)

\* split[k] of a Vec (zero-based): an index past the end panics
index_or_panic(parts, k) == IF k < Len(parts) THEN parts[k + 1] ELSE PANIC

\* Iterator::nth_back(k).unwrap_or_default()
nth_back_or_default(parts, k) == IF k < Len(parts) THEN parts[Len(parts) - k] ELSE <<>>

\* the common parser: "{source}/{slug}", slug the last part of the url
slug_common(query) ==
    LET domain == split(query, LIT_SLASH)[1]
        source == nth_back_or_default(split(domain, U(".")), 1)
        parts  == split(query, LIT_SLASH)
    IN  source \o LIT_SLASH \o parts[Len(parts)]

slug_gist(query) ==
    LET temp == U("gist/") \o trim_start_matches(
                    trim_start_matches(query, U("gist.githubusercontent.com/")),
                    U("gist.github.com/"))
    IN  U("gist/") \o base64_encode(temp)

slug_mangasee(query) ==
    U("mangasee/") \o trim_start_matches(trim_start_matches(trim_start_matches(
        trim_start_matches(query, U("manga")), U("see123")), U("4life")), U(".com/manga/"))

slug_mangadex(query) ==
    LET id == index_or_panic(split(query, LIT_SLASH), 2)
    IN  IF id = PANIC THEN PANIC ELSE U("mangadex/") \o id

slug_mangakatana(url, query) ==
    LET domain == split(query, LIT_SLASH)[1]
    IN  split(domain, U("."))[1] \o LIT_SLASH \o base64_encode(url)

slug_mangadventure(url) ==
    LET parts == split(url, LIT_SLASH)
        a     == index_or_panic(parts, 0)
        b     == index_or_panic(parts, 2)
        c     == index_or_panic(parts, 4)
    IN  IF PANIC \in {a, b, c} THEN PANIC
        ELSE U("mangadventure/")
               \o base64_encode(trim_end_matches(a, U(":")) \o LIT_SLASH \o b \o LIT_SLASH \o c)

slug_cubari(query) ==
    LET parts == split(trim_end_matches(trim_start_matches(query, U("cubari.moe/read/")),
                                        LIT_SLASH), LIT_SLASH)
        a     == index_or_panic(parts, 0)
        b     == index_or_panic(parts, 1)
    IN  IF PANIC \in {a, b} THEN PANIC ELSE a \o LIT_SLASH \o b

url_to_slug(url) ==
    LET slash_count == slash_count_of(url)
        query       == query_of(url)
    IN  IF \/ contains(query, U("imgur"))
              /\ contains(replace(query, U("/a/"), U("/gallery/")), U("/gallery/"))
           \/ contains(query, U("reddit.com/gallery"))
           \/ contains(query, U("imgbox.com/g/"))
           \/ contains(query, U("readmanhwa.com"))
           \/ contains(query, U("nhentai.net/g/"))
        THEN slug_common(query)
        ELSE IF contains(query, U("git.io"))
        THEN U("gist/") \o trim_start_matches(query, U("git.io/"))
        ELSE IF \/ contains(query, U("gist.githubusercontent.com/"))
                \/ contains(query, U("gist.github.com/")) /\ contains(query, U("raw"))
        THEN slug_gist(query)
        ELSE IF contains(query, U("mangasee123.com/manga")) \/ contains(query, U("manga4life.com/manga"))
        THEN slug_mangasee(query)
        ELSE IF contains(query, U("mangadex.org/title"))
        THEN slug_mangadex(query)
        ELSE IF contains(query, U("mangakatana"))
        THEN slug_mangakatana(url, query)
        ELSE IF (contains(query, U("assortedscans.com")) \/ contains(query, U("arc-relight.com")))
                /\ slash_count >= 4
        THEN slug_mangadventure(url)
        ELSE IF contains(query, U("cubari.moe/read")) /\ slash_count >= 3
        THEN slug_cubari(query)
        ELSE url

(***************************************************************************)
(* en.mangairo parser.rs: parse_incoming_url_chapter_id.                   *)
(***************************************************************************)
\* the Option<String> returned (some, val), or the panic of parts[4] out of
\* bounds
parse_incoming_url_chapter_id(url) ==
    LET parts == split(url, LIT_SLASH)
    IN  IF Len(parts) >= 4
        THEN IF index_or_panic(parts, 4) = PANIC
             THEN [panicked |-> TRUE, some |-> FALSE, val |-> <<>>]
             ELSE [panicked |-> FALSE, some |-> TRUE, val |-> index_or_panic(parts, 4)]
        ELSE [panicked |-> FALSE, some |-> FALSE, val |-> <<>>]

(***************************************************************************)
(* Inputs.  A filename is built from a series title by one of the release  *)
(* naming templates, or is a free-form string; tpl records how it was      *)
(* built.                                                                  *)
(***************************************************************************)
\* series titles: plain names, names with digits, with a parenthesised
\* part, with marker-like text, non-ASCII, percent sign, and the excluded ones
Titles ==
    { U("Hunter x Hunter"), U("Chainsaw Man"), U("Blame 2"), U("Blame 2 (Deluxe)"),
      U("Saga v2"), U("Alien vs Predator"), U("Gate - Chaos"), U("c2"),
      U("Caf") \o <<233>> \o U(" 2"), U("Zone%2051"), <<>>,
      U("Area 88"), U("Mob Psycho 100"), U("20th Century Boys"), U("AREA 88 ") }

\* titles that hold a listed title, are held by one, or differ from one in
\* case and padding only
NearListed ==
    { U("Area 8"), U("My Area 88"), U("Area 88 Zero"), U("rea 88"), U(" area 88"),
      U("MOB PSYCHO 100  "), U("20th Century Boys"), U("Area  88") }

\* the titles the free-form filenames are parsed against
FreeTitles == { <<>>, U("c"), U("(v1"), <<233, 32>> }

\* the number n as written in a filename: plain, or zero-padded ("007")
Written(n, padded) == IF padded THEN U("00") \o Dec(n) ELSE Dec(n)

Nums == 1..MaxNum

\* release metadata: parenthesised groups
Metas == { U(" (2022)"), U(" (2022) (Digital) (LuCaZ)"), U(" (v5) (c7 - 9)") }

\* what may follow an explicit "c<digits>" marker inside the chapter section
Tails == { <<>>, U(" part 7"), U("-9"), U(" v1"), U(".5") }

\* the characters of free-form filenames
Alphabet == { 32, 37, 40, 45, 49, 99, 118, 233 }

RECURSIVE StringsUpTo(_)
StringsUpTo(n) ==
    IF n = 0 THEN { <<>> }
    ELSE StringsUpTo(n - 1)
         \cup { Append(s, c) : s \in { t \in StringsUpTo(n - 1) : Len(t) = n - 1 }, c \in Alphabet }

\* malformed names beyond the free-form length: stray '%', unbalanced
\* parentheses, a long digit run, upper-case extension
Malformed ==
    { U("%"), U("%4"), U("a%4"), U("%41%"), U("100%"), U("((v"), U(" (v1"), U("v1)) ( - "),
      U("12345678"), U("c1234567.CBZ"), U(".cbz"), U(" - "), U(" - c"), U(" - c-"),
      U("Caf%C3%A9 1.zip"), <<233, 46, 99, 98, 122>>, U("x - c1.5-2.5.cbz"), U("1.2.3"),
      U("a.cbz.zip"), U("%2541"), U("x - c2 (a-1).cbz"),
      U("Ab 1.JpEg"), U("X.7z.RAR"), U("A.TXT.bak") }

\* the series whose index pages are listed
ListTitle == U("Zed")

\* what may follow the series folder in the page's path: nothing, a slash,
\* a '!' folder (percent-encoded)
PathTails == { <<>>, U("/"), U("/%21extras") }

\* link texts of the index table: files with a chapter range (plain, from
\* zero, fractional, descending), a chapter, chapter zero, a volume, the
\* series name alone, a directory and a '!' entry
RowTitles ==
    { ListTitle \o U(" - c001-003.cbz"), ListTitle \o U(" - c0-2.cbz"),
      ListTitle \o U(" - c1.5-2.5 (x).cbz"), ListTitle \o U(" - c3-1.cbz"),
      ListTitle \o U(" 5.cbz"), ListTitle \o U(" 0.cbz"), ListTitle \o U(" v2.cbz"),
      ListTitle, U("extras/"), U("!readme.txt") }

\* the row at position i of the table, with the href of its read link
Row(title, i) == [title |-> title, base_url |-> U("https://manga.madokami.al/reader/raw/") \o Dec(i)]

RECURSIVE RowsUpTo(_)
RowsUpTo(n) ==
    IF n = 0 THEN { <<>> }
    ELSE RowsUpTo(n - 1)
         \cup { Append(rows, Row(title, n)) :
                    rows \in { r \in RowsUpTo(n - 1) : Len(r) = n - 1 }, title \in RowTitles }

\* supported URLs without scheme, each with the slug the crate's tests
\* expect for it (test_source_slug_parser, test_git_io_parser, ...)
SlugTable ==
    { <<U("reddit.com/gallery/vjry2h"), U("reddit/vjry2h")>>,
      <<U("new.reddit.com/gallery/vjry2h"), U("reddit/vjry2h")>>,
      <<U("www.reddit.com/gallery/vjry2h"), U("reddit/vjry2h")>>,
      <<U("imgur.com/gallery/hYhqG7b"), U("imgur/hYhqG7b")>>,
      <<U("imgur.io/gallery/hYhqG7b"), U("imgur/hYhqG7b")>>,
      <<U("m.imgur.com/gallery/hYhqG7b"), U("imgur/hYhqG7b")>>,
      <<U("imgur.com/a/hYhqG7b"), U("imgur/hYhqG7b")>>,
      <<U("imgur.io/a/hYhqG7b"), U("imgur/hYhqG7b")>>,
      <<U("m.imgur.com/a/hYhqG7b"), U("imgur/hYhqG7b")>>,
      <<U("nhentai.net/g/177013"), U("nhentai/177013")>>,
      <<U("imgbox.com/g/YMWC88hgjM"), U("imgbox/YMWC88hgjM")>>,
      <<U("readmanhwa.com/en/webtoon/keep-it-a-secret"), U("readmanhwa/keep-it-a-secret")>>,
      <<U("git.io/JO7JN"), U("gist/JO7JN")>>,
      <<U("git.io/https"), U("gist/https")>>,
      <<U("gist.github.com/N/99/raw/9e/Y.JSON"), U("gist/Z2lzdC9OLzk5L3Jhdy85ZS9ZLkpTT04")>>,
      <<U("gist.githubusercontent.com/N/99/raw/9e/Y.JSON"),
        U("gist/Z2lzdC9OLzk5L3Jhdy85ZS9ZLkpTT04")>>,
      <<U("mangasee123.com/manga/Anima"), U("mangasee/Anima")>>,
      <<U("manga4life.com/manga/Anima"), U("mangasee/Anima")>>,
      <<U("mangasee123.com/manga/sss"), U("mangasee/sss")>>,
      <<U("mangadex.org/title/8015-a7/berserk"), U("mangadex/8015-a7")>>,
      <<U("mangadex.org/title/8015-a7"), U("mangadex/8015-a7")>>,
      <<U("cubari.moe/read/gist/Z2lzdC9O"), U("gist/Z2lzdC9O")>>,
      <<U("cubari.moe/read/nhentai/408179"), U("nhentai/408179")>>,
      <<U("cubari.moe/read/nhentai/408179/1"), U("nhentai/408179")>> }

Schemes == { <<>>, U("http://"), U("https://") }

\* URLs of the other hosts the parser knows
OtherUrls ==
    { U("https://mangakatana.com/manga/ab.1"), U("https://assortedscans.com/reader/maou/"),
      U("https://arc-relight.com/reader/cc/") }

\* URLs without a slug: an unknown host, a slug, a known host with a path
\* too short for the slug
Unparsable ==
    { U("https://www.google.com"), U("nhentai/177013"), <<>>,
      U("mangadex.org/title"), U("https://mangadex.org/title/"),
      U("cubari.moe/read"), U("https://cubari.moe/read/gist"),
      U("assortedscans.com/reader/maou"), U("https://assortedscans.com/reader"),
      U("https://arc-relight.com/") }

\* incoming mangairo URLs, each with its chapter segment (<<>> if it has none)
MangairoUrls ==
    { <<U("https://m.io/story-x/chapter-52"), U("chapter-52")>>,
      <<U("https://m.io/story-x/chapter-52/"), U("chapter-52")>>,
      <<U("https://m.io/story-x/chapter-5/2"), U("chapter-5")>>,
      <<U("https://m.io/story-x"), <<>>>>,
      <<U("https://m.io/story-pn279847"), <<>>>>,
      <<U("https://m.io"), <<>>>>,
      <<U("https:/"), <<>>>>,
      <<U("m.io/story-x"), <<>>>>,
      <<<<>>, <<>>>> }

Build(t) ==
    CASE t.kind = "identity"     -> t.title
      [] t.kind = "bare"         -> t.title \o U(".cbz")
      [] t.kind = "chapter_meta" -> t.title \o U(" ") \o Written(t.n, t.padded) \o t.meta \o U(".cbz")
      [] t.kind = "volume"       -> t.title \o U(" v") \o Written(t.n, t.padded) \o U(".cbz")
      [] t.kind = "vol_dash_ch"  -> t.title \o U(" v") \o Written(t.v, t.padded) \o U(" - ")
                                      \o Written(t.c, t.padded) \o U(".cbz")
      [] t.kind = "vol_dash_c"   -> t.title \o U(" v") \o Written(t.v, t.padded) \o U(" - c")
                                      \o Written(t.c, t.padded) \o U(".cbz")
      [] t.kind = "range"        -> t.title \o U(" - c") \o Written(t.a, t.padded) \o U("-")
                                      \o Written(t.b, t.padded) \o U(".cbz")
      [] t.kind = "dash2"        -> t.title \o U(" - ") \o (IF t.marked THEN U("c") ELSE <<>>)
                                      \o Dec(t.a) \o U(" - ") \o Dec(t.b) \o U(".cbz")
      [] t.kind = "vol_sp_ch"    -> t.title \o U(" v") \o Written(t.v, t.padded) \o U(" ")
                                      \o Written(t.c, t.padded) \o U(".cbz")
      [] t.kind = "fraction"     -> t.title \o (IF t.dashed THEN U(" - ") ELSE U(" "))
                                      \o Dec(t.a) \o U(".") \o Dec(t.b) \o U(".cbz")
      [] t.kind = "ch_extra"     -> t.title \o U(" ") \o Written(t.n, t.padded)
                                      \o (IF t.dashed THEN U(" - extra.cbz") ELSE U(" extra.cbz"))
      [] t.kind = "near_listed"  -> t.title \o U(" ") \o Dec(t.n) \o U(".cbz")
      [] t.kind = "glued123"     -> t.title \o U("123.cbz")
      [] t.kind = "dash_c"       -> t.title \o U(" - c") \o Written(t.n, t.padded) \o U(".cbz")
      [] t.kind = "c_section"    -> (IF t.dashed THEN t.title \o U(" - ") ELSE <<>>)
                                      \o U("c") \o (IF t.spaced THEN U(" ") ELSE <<>>)
                                      \o Written(t.n, t.padded) \o t.tail
                                      \o (IF t.ext THEN U(".cbz") ELSE <<>>)
      [] t.kind = "free"         -> t.name
      [] t.kind = "listing"      -> U("/Manga/Z/") \o t.title \o t.tail
      [] t.kind = "url"          -> t.scheme \o t.case[1] \o (IF t.slash THEN U("/") ELSE <<>>)
      [] t.kind = "other_url"    -> t.name
      [] t.kind = "mangairo_url" -> t.case[1]

Templates ==
    [kind : {"identity", "bare", "glued123"}, title : Titles]
    \cup [kind : {"volume", "dash_c"}, title : Titles, n : Nums, padded : BOOLEAN]
    \cup [kind : {"chapter_meta"}, title : Titles, n : Nums, padded : BOOLEAN, meta : Metas]
    \cup [kind : {"vol_dash_ch", "vol_dash_c", "vol_sp_ch"}, title : Titles, v : Nums, c : Nums,
          padded : BOOLEAN]
    \cup [kind : {"range"}, title : Titles, a : Nums, b : Nums, padded : BOOLEAN]
    \cup [kind : {"fraction"}, title : Titles, a : Nums \cup {10}, b : {5}, dashed : BOOLEAN]
    \cup [kind : {"ch_extra"}, title : Titles, n : Nums, padded : BOOLEAN, dashed : BOOLEAN]
    \cup [kind : {"near_listed"}, title : NearListed, n : Nums]
    \cup [kind : {"dash2"}, title : Titles, a : Nums, b : Nums, marked : BOOLEAN]
    \cup [kind : {"c_section"}, title : Titles, n : Nums, padded : BOOLEAN, dashed : BOOLEAN,
          spaced : BOOLEAN, tail : Tails, ext : BOOLEAN]
    \cup [kind : {"free"}, title : Titles, name : Malformed]
    \cup [kind : {"free"}, title : FreeTitles, name : StringsUpTo(MaxLen)]
    \cup [kind : {"listing"}, title : {ListTitle}, tail : PathTails, rows : RowsUpTo(MaxRows)]
    \cup [kind : {"url"}, title : {<<>>}, case : SlugTable, scheme : Schemes, slash : BOOLEAN]
    \cup [kind : {"other_url"}, title : {<<>>}, name : Unparsable \cup OtherUrls]
    \cup [kind : {"mangairo_url"}, title : {<<>>}, case : MangairoUrls]

(***************************************************************************)
(* The state machine: a call of either parser on the drawn input.          *)
(***************************************************************************)
(***************************************************************************)
(* multi.cubari: the one-slot request cache (lib.rs) and the history store *)
(* (database.rs).  The defaults store holds history.series, one            *)
(* history.<id> object per manga, and the saveSeries setting.              *)
(***************************************************************************)
\* the ids (slugs) of the series the source is asked about
Slugs == { "imgur/hYhqG7b", "gist/JO7JN", "mangadex/8015" }

GUIDE == "aidoku/guide"

\* the JSON object the cubari API answers for a slug
JsonOf(slug) == [cover |-> <<"cover", slug>>, title |-> <<"title", slug>>]

\* Option::None of the two statics
NoSlug == ""
NoJson == [none |-> TRUE]

\* a key the defaults store does not hold, a field an object does not hold,
\* and ObjectRef::new()
NoValue == [absent |-> TRUE]
NoField == <<>>
ObjectRef_new == [cover |-> NoField, title |-> NoField]

\* the state after initialize() on an empty defaults store
CubariInit ==
    /\ CACHED_SLUG = NoSlug
    /\ CACHED_JSON = NoJson
    /\ history_series = <<>>
    /\ history = [id \in Slugs |-> NoValue]
    /\ saveSeries = "unset"
    /\ ret = [op |-> "initialize", slug |-> NoSlug, ok |-> TRUE]

\* the statics after cache_api_request(slug) whose fetch, if any, succeeds
\* (fetched) or fails; ok is the Result
cache_api_request(slug, fetched) ==
    IF CACHED_JSON # NoJson /\ slug = CACHED_SLUG
    THEN [slug |-> CACHED_SLUG, json |-> CACHED_JSON, ok |-> TRUE]
    ELSE IF fetched
    THEN [slug |-> slug, json |-> JsonOf(slug), ok |-> TRUE]
    ELSE [slug |-> slug, json |-> CACHED_JSON, ok |-> FALSE]

Range(seq) == { seq[k] : k \in 1..Len(seq) }

\* defaults_get("saveSeries").as_bool().unwrap_or(true)
save_series == saveSeries # "false"

\* add_or_update_manga that inserts the key without looking it up
add_or_update_manga_no_lookup(manga) ==
    IF save_series
    THEN LET key == manga.id
             obj == IF history[key] # NoValue THEN history[key] ELSE ObjectRef_new
         IN  << Append(history_series, key),
                [history EXCEPT ![key] = [obj EXCEPT !.cover = manga.cover,
                                                     !.title = manga.title]] >>
    ELSE << history_series, history >>

\* the store after add_or_update_manga(manga): <<history.series, history.*>>
add_or_update_manga(manga) ==
    IF save_series
    THEN LET key == manga.id
             obj == IF history[key] # NoValue THEN history[key] ELSE ObjectRef_new
         IN  << IF key \in Range(history_series) THEN history_series
                ELSE Append(history_series, key),
                [history EXCEPT ![key] = [obj EXCEPT !.cover = manga.cover,
                                                     !.title = manga.title]] >>
    ELSE << history_series, history >>

\* the store after delete_all_manga()
delete_all_manga ==
    << <<>>,
       [id \in Slugs |-> IF id \in Range(history_series) THEN ObjectRef_new ELSE history[id]] >>

\* cache_api_request(slug) as get_chapter_list and get_page_list call it
CacheApiRequest ==
    \E slug \in Slugs, fetched \in BOOLEAN :
        LET r == cache_api_request(slug, fetched)
        IN  /\ CACHED_SLUG' = r.slug
            /\ CACHED_JSON' = r.json
            /\ ret' = [op |-> "cache_api_request", slug |-> slug, ok |-> r.ok]
            /\ UNCHANGED <<history_series, history, saveSeries>>
            /\ UNCHANGED parser_vars

\* get_manga_details(id)
GetMangaDetails ==
    \E id \in Slugs \cup {GUIDE}, fetched \in BOOLEAN :
        IF id = GUIDE
        THEN /\ ret' = [op |-> "get_manga_details", slug |-> id, ok |-> TRUE]
             /\ UNCHANGED <<CACHED_SLUG, CACHED_JSON, history_series, history, saveSeries>>
             /\ UNCHANGED parser_vars
        ELSE LET r     == cache_api_request(id, fetched)
                 manga == [id |-> id, cover |-> r.json.cover, title |-> r.json.title]
             IN  /\ CACHED_SLUG' = r.slug
                 /\ CACHED_JSON' = r.json
                 /\ ret' = [op |-> "get_manga_details", slug |-> id, ok |-> r.ok]
                 /\ IF r.ok
                    THEN /\ history_series' = add_or_update_manga(manga)[1]
                         /\ history' = add_or_update_manga(manga)[2]
                    ELSE UNCHANGED <<history_series, history>>
                 /\ UNCHANGED saveSeries
                 /\ UNCHANGED parser_vars

\* handle_notification("deleteHistory")
DeleteHistory ==
    /\ history_series' = delete_all_manga[1]
    /\ history' = delete_all_manga[2]
    /\ ret' = [op |-> "delete_all_manga", slug |-> NoSlug, ok |-> TRUE]
    /\ UNCHANGED <<CACHED_SLUG, CACHED_JSON, saveSeries>>
    /\ UNCHANGED parser_vars

\* the user switches the saveSeries setting
SetSaveSeries ==
    /\ \E b \in {"true", "false"} : b # saveSeries /\ saveSeries' = b
    /\ ret' = [op |-> "set_save_series", slug |-> NoSlug, ok |-> TRUE]
    /\ UNCHANGED <<CACHED_SLUG, CACHED_JSON, history_series, history>>
    /\ UNCHANGED parser_vars

CubariNext ==
    \/ CacheApiRequest
    \/ GetMangaDetails
    \/ DeleteHistory
    \/ SetSaveSeries

(***************************************************************************)
(* The state machine of the madokami functions.                            *)
(***************************************************************************)
Init ==
    /\ CubariInit
    /\ tpl \in Templates
    /\ filename = Build(tpl)
    /\ manga_title = tpl.title
    /\ pc = "start"
    /\ info = ChapterInfo_default
    /\ text = <<>>
    /\ chapters = <<>>

\* helper.rs parse_chapter_info(filename, manga_title)
ParseChapterInfo ==
    /\ pc = "start"
    /\ LET r == parse_chapter_info(filename, manga_title)
       IN  /\ info' = r.info
           /\ pc' = IF r.panicked THEN "panicked" ELSE "helper"
    /\ UNCHANGED <<filename, manga_title, tpl, text, chapters>>
    /\ UNCHANGED cubari_vars

\* lib.rs parse_chapter_info(&title, &manga_title)
LibParseChapterInfo ==
    /\ pc = "start"
    /\ LET r == lib_parse_chapter_info(filename, manga_title)
       IN  /\ info' = r.info
           /\ pc' = IF r.panicked THEN "panicked" ELSE "lib"
    /\ UNCHANGED <<filename, manga_title, tpl, text, chapters>>
    /\ UNCHANGED cubari_vars

\* url_decode(filename)
UrlDecode ==
    /\ pc = "start"
    /\ text' = url_decode(filename)
    /\ pc' = IF url_decode(filename) = PANIC THEN "panicked" ELSE "decoded"
    /\ UNCHANGED <<filename, manga_title, tpl, info, chapters>>
    /\ UNCHANGED cubari_vars

\* the normalisation of the filename, and of an already normalised name
Normalize ==
    /\ pc \in {"start", "normalized"}
    /\ LET input == IF pc = "start" THEN filename ELSE text
       IN  /\ text' = normalize(input)
           /\ pc' = IF normalize(input) = PANIC THEN "panicked"
                    ELSE IF pc = "start" THEN "normalized" ELSE "renormalized"
    /\ UNCHANGED <<filename, manga_title, tpl, info, chapters>>
    /\ UNCHANGED cubari_vars

\* mangairo parse_incoming_url_chapter_id(filename)
ParseIncomingUrlChapterId ==
    /\ pc = "start"
    /\ tpl.kind = "mangairo_url"
    /\ LET r == parse_incoming_url_chapter_id(filename)
       IN  /\ text' = r.val
           /\ pc' = IF r.panicked THEN "chapter_id_panicked"
                    ELSE IF r.some THEN "chapter_id_some" ELSE "chapter_id_none"
    /\ UNCHANGED <<filename, manga_title, tpl, info, chapters>>
    /\ UNCHANGED cubari_vars

\* url_decode(&url_encode(filename))
EncodeDecode ==
    /\ pc = "start"
    /\ text' = url_decode(url_encode(filename))
    /\ pc' = IF url_decode(url_encode(filename)) = PANIC THEN "panicked" ELSE "roundtrip"
    /\ UNCHANGED <<filename, manga_title, tpl, info, chapters>>
    /\ UNCHANGED cubari_vars

\* helper.rs clean_filename(filename)
CleanFilename ==
    /\ pc = "start"
    /\ text' = clean_filename(filename)
    /\ pc' = IF clean_filename(filename) = PANIC THEN "panicked" ELSE "cleaned"
    /\ UNCHANGED <<filename, manga_title, tpl, info, chapters>>
    /\ UNCHANGED cubari_vars

\* lib.rs get_chapter_list(id) on a page with the drawn rows; filename is
\* the id (the page's path)
GetChapterList ==
    /\ pc = "start"
    /\ tpl.kind = "listing"
    /\ chapters' = get_chapter_list(filename, tpl.rows)
    /\ pc' = "listed"
    /\ UNCHANGED <<filename, manga_title, tpl, info, text>>
    /\ UNCHANGED cubari_vars

\* cubari_url_parser url_to_slug(filename)
UrlToSlug ==
    /\ pc = "start"
    /\ tpl.kind \in {"url", "other_url"}
    /\ text' = url_to_slug(filename)
    /\ pc' = IF url_to_slug(filename) = PANIC THEN "slug_panicked" ELSE "slug"
    /\ UNCHANGED <<filename, manga_title, tpl, info, chapters>>
    /\ UNCHANGED cubari_vars

Next ==
    \/ UrlToSlug
    \/ ParseIncomingUrlChapterId
    \/ EncodeDecode
    \/ CleanFilename
    \/ ParseChapterInfo
    \/ LibParseChapterInfo
    \/ UrlDecode
    \/ Normalize
    \/ GetChapterList

Spec == Init /\ [][Next]_vars

\* the cubari source alone, the madokami input fixed
CubariStart ==
    /\ CubariInit
    /\ tpl = [kind |-> "identity", title |-> <<>>]
    /\ filename = <<>>
    /\ manga_title = <<>>
    /\ pc = "start"
    /\ info = ChapterInfo_default
    /\ text = <<>>
    /\ chapters = <<>>

CubariSpec == CubariStart /\ [][CubariNext]_vars

(***************************************************************************)
(* Properties.                                                             *)
(***************************************************************************)
HelperDone == pc = "helper"
LibDone == pc = "lib"

\* a title that percent-decoding leaves alone: ASCII, no %HH escape
Undecoded(title) == url_decode(title) = title

\* the text of the lower-cased title after its last " - " (all of it if none)
TitleTail(title) == chapter_section_of(trim(to_lowercase(title)))

\* s is 'c', optional whitespace, then a digit
BeginsWithCDigits(s) ==
    /\ starts_with(s, LIT_C)
    /\ take_while_digit(trim_start(SubSeq(s, 2, Len(s)))) # <<>>

EndsWithDigit(s) == s # <<>> /\ is_ascii_digit(s[Len(s)])

\* some "(v" or " v" of s is directly followed by a digit
HasVolumeDigits(s) ==
    \E k \in Occurrences(s, LIT_PAREN_V) \cup Occurrences(s, LIT_SP_V) :
        k + 3 <= Len(s) /\ is_ascii_digit(s[k + 3])

HasVolumeLetter(s) == contains(s, LIT_PAREN_V) \/ contains(s, LIT_SP_V)

\* C1: for every series title T, parse_chapter_info(T, T) is the default
\* record (no chapter, no volume, no range), in helper.rs and in lib.rs.
C1_IdentityIsDefault ==
    tpl.kind = "identity" =>
        /\ HelperDone => info = ChapterInfo_default
        /\ LibDone => info = LibChapterInfo_default

\* C2 as stated: "<T> <N> (<meta>)....cbz" gives chapter N and no volume for
\* every series title T.
C2_Original ==
    (tpl.kind = "chapter_meta" /\ HelperDone) =>
        info = [chapter |-> F(tpl.n), volume |-> Zero]

\* the titles C2 holds for
C2_Title(title) ==
    /\ Undecoded(title)
    /\ ~is_excluded(title)
    /\ ~contains(to_lowercase(title), LIT_SP_PAREN)
    /\ ~HasVolumeDigits(to_lowercase(title))
    /\ ~BeginsWithCDigits(TitleTail(title))

\* C2 amended: for every title that is not percent-encoded, not excluded,
\* holds no " (", no volume marker followed by a digit, and whose last
\* " - " section does not begin with c<digits>, "<T> <N> (<meta>)....cbz"
\* gives chapter N and no volume, whatever the metadata groups hold.
C2_ChapterBeforeMetadata ==
    (tpl.kind = "chapter_meta" /\ HelperDone /\ C2_Title(manga_title)) =>
        info = [chapter |-> F(tpl.n), volume |-> Zero]

C2_Witness ==
    /\ tpl.kind = "chapter_meta" /\ HelperDone /\ C2_Title(manga_title)
    /\ tpl.meta = U(" (v5) (c7 - 9)")
    /\ info.chapter = F(tpl.n)

C3_MarkerTitle(title) ==
    /\ Undecoded(title)
    /\ ~is_excluded(title)
    /\ trim(title) # <<>>
    /\ ~contains(to_lowercase(title), LIT_SP_PAREN)
    /\ ~HasVolumeLetter(to_lowercase(title))

\* the title's last " - " section neither begins with c<digits> nor ends
\* in a digit, and the title does not end in " -"
C3_PlainTail(title) ==
    /\ ~BeginsWithCDigits(TitleTail(title))
    /\ ~EndsWithDigit(TitleTail(title))
    /\ ~ends_with(trim(to_lowercase(title)), U(" -"))

C4_Original ==
    (tpl.kind \in {"vol_dash_ch", "vol_dash_c"} /\ HelperDone) =>
        info = [chapter |-> F(tpl.c), volume |-> F(tpl.v)]

\* C4 amended: for every title that is not percent-encoded, not excluded,
\* not blank and holds no " (", " v" or "(v", both forms give volume V and
\* chapter C, also when V = C.
C4_VolumeAndChapter ==
    (tpl.kind \in {"vol_dash_ch", "vol_dash_c"} /\ HelperDone /\ C3_MarkerTitle(manga_title)) =>
        info = [chapter |-> F(tpl.c), volume |-> F(tpl.v)]

C4_Witness ==
    /\ tpl.kind = "vol_dash_ch" /\ HelperDone /\ C3_MarkerTitle(manga_title)
    /\ tpl.v = tpl.c
    /\ info = [chapter |-> F(tpl.c), volume |-> F(tpl.v)]

\* the chapter section of the claim: the truncated name, or its part after
\* the last " - "
SectionOfInput == chapter_section_of(truncated_name(filename, manga_title))

\* the digit run of an explicit marker: 'c', optional whitespace, digits
MarkerDigits(s) == take_while_digit(trim_start(SubSeq(s, 2, Len(s))))

\* C5 as stated: whenever the chapter section starts with 'c', optional
\* whitespace and a digit run, the chapter is that digit run, for any title.
C5_Original ==
    (HelperDone /\ BeginsWithCDigits(SectionOfInput)) =>
        info.chapter = parse_f32(MarkerDigits(SectionOfInput)).val

\* C5 amended: the same, for any series title other than the truncated name
\* itself (then the identity check returns the default record first); the
\* explicit marker wins over a trailing digit run.
C5_ExplicitMarker ==
    (HelperDone /\ BeginsWithCDigits(SectionOfInput)
       /\ truncated_name(filename, manga_title) # trim(to_lowercase(manga_title))) =>
        info.chapter = parse_f32(MarkerDigits(SectionOfInput)).val

C5_Witness ==
    /\ HelperDone /\ tpl.kind = "c_section" /\ tpl.tail = U(" part 7")
    /\ BeginsWithCDigits(SectionOfInput)
    /\ info.chapter = F(tpl.n)

\* C6 as stated: "<T> - c<A>-<B>.cbz" gives chapter_range (A, B) and chapter
\* A for every series title T (lib.rs, the variant with a range).
C6_Original ==
    (tpl.kind = "range" /\ LibDone) =>
        /\ info.chapter_range = <<F(tpl.a), F(tpl.b)>>
        /\ info.chapter = F(tpl.a)

\* some " v" of s is directly followed by a digit or a dot
HasLibVolume(s) ==
    \E k \in Occurrences(s, LIT_SP_V) :
        k + 3 <= Len(s) /\ (is_ascii_digit(s[k + 3]) \/ s[k + 3] = 46)

\* C6 amended: the same for every title that is not percent-encoded and
\* holds neither " v" followed by a digit or dot (the volume check comes
\* first and returns) nor " - c" (the first " - c" is the one parsed).
C6_ChapterRange ==
    (tpl.kind = "range" /\ LibDone /\ Undecoded(manga_title)
       /\ ~HasLibVolume(to_lowercase(manga_title))
       /\ ~contains(to_lowercase(manga_title), LIT_DASH_C)) =>
        /\ info.chapter_range = <<F(tpl.a), F(tpl.b)>>
        /\ info.chapter = F(tpl.a)

C6_Witness ==
    /\ tpl.kind = "range" /\ LibDone /\ tpl.a # tpl.b /\ tpl.padded
    /\ info.chapter_range = <<F(tpl.a), F(tpl.b)>>
    /\ info.chapter = F(tpl.a)

\* C7 as stated: for an excluded title T, "<T>123.cbz" never gives chapter
\* 123 from the trailing digits of the filename.
C7_NoGluedChapter ==
    (tpl.kind = "glued123" /\ HelperDone /\ is_excluded(manga_title)) =>
        info.chapter # F(123)

\* the digit run that follows the title at the start of the decoded,
\* lower-cased name without its extension
DigitsAfterTitle ==
    LET name  == clean_filename(to_lowercase(url_decode(filename)))
        title == to_lowercase(manga_title)
    IN  IF starts_with(name, title)
        THEN take_while_digit(trim(SubSeq(name, Len(title) + 1, Len(name))))
        ELSE <<>>

TitleNumberFollowsMarker(title) ==
    LET t == to_lowercase(trim(title))
    IN  \E i \in 5..Len(t) :
            /\ is_ascii_digit(t[i]) /\ ~is_ascii_digit(t[i - 1])
            /\ t[i - 4] \in {99, 118}

C9_OnlyTheSuffix ==
    (HelperDone /\ is_excluded(manga_title)) =>
        /\ tpl.kind = "bare"   => info = ChapterInfo_default
        /\ tpl.kind = "volume" => info = [chapter |-> Zero, volume |-> F(tpl.n)]
        /\ tpl.kind = "dash_c" => info = [chapter |-> F(tpl.n), volume |-> Zero]

\* no ASCII digit is left in the name after percent-decoding
NothingToExtract == \A k \in 1..Len(url_decode(filename)) : ~is_ascii_digit(url_decode(filename)[k])

\* C10: parse_chapter_info returns a record for every pair of strings and
\* never panics; a name without any digit gives the all-default record.
C10_Total ==
    /\ pc # "panicked"
    /\ (HelperDone /\ NothingToExtract) => info = ChapterInfo_default
    /\ (LibDone /\ NothingToExtract) => info = LibChapterInfo_default

C10_Witness ==
    /\ HelperDone /\ tpl.kind = "free" /\ filename = U("%4")
    /\ info = [chapter |-> F(4), volume |-> Zero]

\* C11 as stated: normalising an already normalised filename changes
\* nothing, for every filename.
C11_Idempotent ==
    [][(pc = "normalized" /\ pc' = "renormalized") => text' = text]_vars

\* C12 as stated: url_decode returns every string without '%' unchanged,
\* non-ASCII included, and leaves verbatim a '%' that is not followed by two
\* hexadecimal digits.
C12_OnlyCompleteEscapes ==
    (pc = "decoded"
       /\ \A i \in 1..Len(filename) :
             filename[i] = 37 =>
                ~(i + 2 <= Len(filename) /\ hex_val(filename[i + 1]) # None
                                         /\ hex_val(filename[i + 2]) # None))
        => text = filename

\* the lower-cased decoded name holds the span " - c<start>-<end>": the
\* marker, a number, one '-', a number
HasRangeSpan(name, start, end) ==
    \E k \in Occurrences(name, LIT_DASH_C) :
        LET after == SubSeq(name, k + 5, Len(name))
            d1    == take_while_digit_or_dot(after)
            rest  == SubSeq(after, Len(d1) + 1, Len(after))
            d2    == take_while_digit_or_dot(SubSeq(rest, 2, Len(rest)))
        IN  /\ d1 # <<>> /\ rest # <<>> /\ rest[1] = 45 /\ d2 # <<>>
            /\ parse_f32(d1).ok /\ parse_f32(d1).val = start
            /\ parse_f32(d2).ok /\ parse_f32(d2).val = end

\* C13 as stated: chapter_range is present only when the filename holds the
\* explicit " - c<start>-<end>" span, and then chapter equals start.
C13_RangeOnlyFromSpan ==
    (LibDone /\ info.chapter_range # <<>>) =>
        /\ info.chapter = info.chapter_range[1]
        /\ HasRangeSpan(to_lowercase(url_decode(filename)),
                        info.chapter_range[1], info.chapter_range[2])

\* the url of the file of row i, and the parser's result for it
RowUrl(i) == reader_url(tpl.rows[i].base_url)
RowInfo(i) == lib_parse_chapter_info(tpl.rows[i].title, extract_manga_title(filename)).info

\* the chapters of the entries emitted with id url, in order
RECURSIVE ChaptersOf(_, _)
ChaptersOf(entries, url) ==
    IF entries = <<>> THEN <<>>
    ELSE (IF Head(entries).id = url THEN <<Head(entries).chapter>> ELSE <<>>)
         \o ChaptersOf(Tail(entries), url)

\* x is a whole number between a and b
WholeBetween(x, a, b) == x.e = 0 /\ ~Less(x, a) /\ ~Less(b, x)

\* C14 as stated: a file whose chapter_range is (start, end) gets exactly one
\* entry for each integer of [start, end], all with the file's id, and no
\* entry built from its single chapter field.
C14_OneEntryPerInteger ==
    pc = "listed" =>
        \A i \in 1..Len(tpl.rows) :
            RowInfo(i).chapter_range # <<>>
              /\ ~ends_with(tpl.rows[i].title, LIT_SLASH)
              /\ ~starts_with(tpl.rows[i].title, LIT_BANG) =>
                LET emitted == ChaptersOf(chapters, RowUrl(i))
                    start   == RowInfo(i).chapter_range[1]
                    end     == RowInfo(i).chapter_range[2]
                IN  /\ \A k \in 1..Len(emitted) : WholeBetween(emitted[k], start, end)
                    /\ \A k, l \in 1..Len(emitted) : emitted[k] = emitted[l] => k = l
                    /\ \A n \in 0..(as_i32(end) + 1) :
                          WholeBetween(F(n), start, end) =>
                             \E k \in 1..Len(emitted) : emitted[k] = F(n)

\* C15 as stated: every emitted entry has a chapter that is -1.0 or > 0 and
\* a volume that is -1.0 or > 0; 0.0 is never emitted.
C15_ZeroNeverEmitted ==
    pc = "listed" =>
        \A k \in 1..Len(chapters) :
            /\ chapters[k].chapter = F(None) \/ Less(Zero, chapters[k].chapter)
            /\ chapters[k].volume = F(None) \/ Less(Zero, chapters[k].volume)

\* C16 as stated: url_to_slug returns for every URL, and returns the URL
\* unchanged when it holds no slug (unknown host, already a slug, known host
\* with too short a path).
C16_UnparsableUnchanged ==
    (tpl.kind = "other_url" /\ filename \in Unparsable /\ pc \in {"slug", "slug_panicked"}) =>
        /\ pc = "slug"
        /\ text = filename

\* C17: a supported URL gives the same slug, the one its test expects,
\* without scheme, with "http://" and "https://", and with these two and a
\* trailing "/".
C17_SchemeAndSlashIgnored ==
    (tpl.kind = "url" /\ pc \in {"slug", "slug_panicked"}
        /\ (tpl.scheme # <<>> \/ ~tpl.slash)) =>
        /\ pc = "slug"
        /\ text = tpl.case[2]
        /\ text = url_to_slug(tpl.case[1])

C17_Witness ==
    /\ tpl.kind = "url" /\ pc = "slug" /\ tpl.scheme = U("https://") /\ tpl.slash
    /\ tpl.case[1] = U("cubari.moe/read/nhentai/408179/1")
    /\ text = U("nhentai/408179")

\* s holds " v" or "(v" directly followed by a digit
HasMarkerDigit(s) ==
    \E i \in 1..(Len(s) - 2) : s[i] \in {32, 40} /\ s[i + 1] = 118 /\ is_ascii_digit(s[i + 2])

\* s holds " v" or "(v" not followed by a digit
HasRejectedMarker(s) ==
    \E i \in 1..(Len(s) - 1) :
        /\ s[i] \in {32, 40} /\ s[i + 1] = 118
        /\ (i + 2 <= Len(s) => ~is_ascii_digit(s[i + 2]))

\* C18 as stated: a marker followed by a non-digit is skipped and the scan
\* goes on, so "<A> vs <B> v<n>.cbz" has volume n; and with no marker
\* followed by a digit the volume stays unset.
C18_RejectedMarkerSkipped ==
    pc = "helper" =>
        /\ (tpl.kind = "volume" /\ HasRejectedMarker(to_lowercase(tpl.title))
               /\ ~HasMarkerDigit(to_lowercase(tpl.title))
               /\ ~contains(tpl.title, LIT_SP_PAREN))
           => info.volume = F(tpl.n)
        /\ ~HasMarkerDigit(normalize(filename)) => info.volume = Zero

\* the digits after the first "(v" of s
ParenMarkerDigits(s) ==
    IF find(s, LIT_PAREN_V) = None THEN <<>>
    ELSE take_while_digit(slice_from(s, find(s, LIT_PAREN_V) + 2))

\* C19 as stated: when the normalised filename holds "(v" followed by the
\* digits N, the volume is N, whatever bare marker the name also holds.
C19_ParenMarkerFirst ==
    (pc = "helper" /\ ParenMarkerDigits(normalize(filename)) # <<>>
        /\ parse_f32(ParenMarkerDigits(normalize(filename))).ok) =>
        info.volume = parse_f32(ParenMarkerDigits(normalize(filename))).val

\* the text after the last " - " of s
AfterLastDash(s) == SubSeq(s, Max(Occurrences(s, LIT_DASH)) + 4, Len(s))

\* the numbers written as a digit run somewhere in s
NumbersIn(s) ==
    { parse_f32(SubSeq(s, p[1], p[2])).val :
        p \in { q \in (1..Len(s)) \X (1..Len(s)) :
                   /\ q[1] <= q[2]
                   /\ \A k \in q[1]..q[2] : is_ascii_digit(s[k]) } }

\* C20: when the truncated filename holds " - ", the chapter is unset or a
\* number written after the last " - "; "<T> - 3 - 7.cbz" and
\* "<T> - c3 - 7.cbz" give chapter 7.
C20_LastSeparator ==
    HelperDone =>
        /\ (contains(truncated_name(filename, manga_title), LIT_DASH) /\ info.chapter # Zero)
           => info.chapter \in NumbersIn(AfterLastDash(truncated_name(filename, manga_title)))
        /\ (tpl.kind = "dash2" /\ ~contains(tpl.title, LIT_SP_PAREN))
           => info.chapter = F(tpl.b)

C20_Witness ==
    /\ HelperDone /\ tpl.kind = "dash2" /\ tpl.marked /\ tpl.a = 2 /\ tpl.b = 1
    /\ tpl.title = U("Gate - Chaos")
    /\ info.chapter = F(1)

\* the chapter section of the input and what the stripping leaves of it
StrippedOfInput == chapter_section_clean_of(SectionOfInput, info.volume)

\* s ends with " v<digits>" and the digits are the number x
EndsWithMarkerOf(s, x) ==
    \E k \in 1..(Len(s) - 2) :
        /\ s[k] = 32 /\ s[k + 1] = 118
        /\ \A j \in (k + 2)..Len(s) : is_ascii_digit(s[j])
        /\ parse_f32(SubSeq(s, k + 2, Len(s))).ok
        /\ Near(parse_f32(SubSeq(s, k + 2, Len(s))).val, x)

\* a title without marker, parenthesis, separator or excluded number
C21_PlainTitle(title) ==
    /\ ~HasMarkerDigit(to_lowercase(title)) /\ ~HasRejectedMarker(to_lowercase(title))
    /\ ~contains(title, LIT_SP_PAREN) /\ ~contains(title, LIT_DASH)
    /\ ~is_excluded(title)

\* C21 as stated: the chapter section is shortened only when it ends with
\* " v<digits>" equal to the volume, and "<T> v<V> <C>.cbz" keeps the text
\* after the marker, so its chapter is C.
C21_OnlyTrailingMarker ==
    HelperDone =>
        /\ StrippedOfInput # SectionOfInput => EndsWithMarkerOf(SectionOfInput, info.volume)
        /\ (tpl.kind = "vol_sp_ch" /\ tpl.v # tpl.c /\ C21_PlainTitle(tpl.title))
           => info.chapter = F(tpl.c)

\* the number a.b
Fraction(a, b) == parse_f32(Dec(a) \o U(".") \o Dec(b)).val

\* C22 as stated: "<T> <a>.<b>.cbz" and "<T> - <a>.<b>.cbz" give the chapter
\* a.b, not b, in both parsers.
C22_FractionWhole ==
    ((HelperDone \/ LibDone) /\ tpl.kind = "fraction" /\ C21_PlainTitle(tpl.title)) =>
        info.chapter = Fraction(tpl.a, tpl.b)

\* the normalised filename (decoded, lower-cased, extension removed, cut at
\* " (") and the lower-cased title
NormalisedOfInput == truncated_of(clean_filename(to_lowercase(url_decode(filename))))
TitleOfInput == to_lowercase(manga_title)

\* the phases before the title-prefix fallback find no chapter in s
NoEarlierChapter(s) ==
    LET section == chapter_section_clean_of(chapter_section_of(s), volume_of(s))
    IN  /\ s # trim(TitleOfInput)
        /\ explicit_c_digits(section) = <<>>
        /\ trailing_digits(section) = <<>>

\* the leading digit run of what follows the title in s
DigitsAfterPrefix(s) ==
    take_while_digit(trim(SubSeq(s, Len(TitleOfInput) + 1, Len(s))))

\* C23 as stated: when no earlier phase found a chapter, a normalised name
\* without " - " that starts with the title gets the leading digit run of
\* the rest as its chapter ("<T> <n> extra.cbz" gives n), and any other name
\* gets the default chapter.
C23_TitlePrefixFallback ==
    (HelperDone /\ NoEarlierChapter(NormalisedOfInput)) =>
        IF /\ ~contains(NormalisedOfInput, LIT_DASH)
           /\ starts_with(NormalisedOfInput, TitleOfInput)
           /\ DigitsAfterPrefix(NormalisedOfInput) # <<>>
        THEN info.chapter = parse_f32(DigitsAfterPrefix(NormalisedOfInput)).val
        ELSE info.chapter = Zero

\* the non-blank lines of the exclusion list, trimmed and lower-cased
ListedTitles ==
    { to_lowercase(trim(exclusions_txt[k])) : k \in 1..Len(exclusions_txt) } \ { <<>> }

\* the name handed to the phases before and after the exclusion cleaning
FullOfInput == clean_filename(to_lowercase(url_decode(filename)))

ExtensionsOfInput ==
    { EXTENSIONS[k] : k \in 1..Len(EXTENSIONS) } \cap
    { SubSeq(to_lowercase(filename), j, Len(filename)) : j \in 1..(Len(filename) + 1) }

\* C25: clean_filename returns the input without its last characters when
\* these are a known extension in any letter case, and the input itself
\* otherwise; the characters kept are those of the input, in their case.
C25_OneExtensionOnly ==
    pc = "cleaned" =>
        IF ExtensionsOfInput = {} THEN text = filename
        ELSE \E ext \in ExtensionsOfInput :
                text = SubSeq(filename, 1, Len(filename) - Len(ext))

C25_Witness ==
    /\ pc = "cleaned" /\ filename = U("X.7z.RAR") /\ text = U("X.7z")

\* C26 as stated: whenever cache_api_request(slug) has returned Ok, the
\* cached JSON is the response fetched for that slug.
C26_CacheCoherent ==
    (ret.op \in {"cache_api_request", "get_manga_details"} /\ ret.ok /\ ret.slug # GUIDE) =>
        CACHED_JSON = JsonOf(ret.slug)

\* row i of the page is not skipped: no directory, no '!' entry
RowKept(i) ==
    /\ ~ends_with(tpl.rows[i].title, LIT_SLASH)
    /\ ~starts_with(tpl.rows[i].title, LIT_BANG)

\* C27 as stated: every row that is not skipped has at least one entry in
\* the list, and the entries of a later row come before those of an earlier
\* row.
C27_EveryRowListed ==
    pc = "listed" =>
        /\ \A i \in 1..Len(tpl.rows) : RowKept(i) => ChaptersOf(chapters, RowUrl(i)) # <<>>
        /\ \A i, j \in 1..Len(tpl.rows) : \A k, l \in 1..Len(chapters) :
              (i < j /\ chapters[k].id = RowUrl(i) /\ chapters[l].id = RowUrl(j)) => l < k

\* C29 as stated: decoding the encoding of a string gives the string back.
C29_RoundTrip == pc = "roundtrip" => text = filename

\* C30 as stated: a URL with a chapter segment gives Some(segment), every
\* other URL gives None, and no URL makes the function fail.
C30_ChapterIdOrNone ==
    pc \in {"chapter_id_some", "chapter_id_none", "chapter_id_panicked"} =>
        IF tpl.case[2] # <<>>
        THEN pc = "chapter_id_some" /\ text = tpl.case[2]
        ELSE pc = "chapter_id_none"

\* the index lists no id twice, and every listed id has a record with cover
\* and title
HistoryConsistent ==
    /\ \A k, l \in 1..Len(history_series) : history_series[k] = history_series[l] => k = l
    /\ \A k \in 1..Len(history_series) :
          /\ history[history_series[k]] # NoValue
          /\ history[history_series[k]].cover # NoField
          /\ history[history_series[k]].title # NoField

\* C28: in every state the index is consistent and it is empty after
\* delete_all_manga; a get_manga_details call, the caller of
\* add_or_update_manga, leaves index and records alone while saveSeries is
\* false.
C28_HistoryStore ==
    /\ [](HistoryConsistent /\ (ret.op = "delete_all_manga" => history_series = <<>>))
    /\ [][(ret'.op = "get_manga_details" /\ saveSeries = "false")
            => UNCHANGED <<history_series, history>>]_vars

C28_Witness ==
    /\ Len(history_series) = 3 /\ saveSeries = "false"
    /\ ret = [op |-> "get_manga_details", slug |-> history_series[1], ok |-> TRUE]
    /\ history[history_series[1]].cover = <<"cover", history_series[1]>>

====
